---------------------------- MODULE Spec2Model ----------------------------
(***************************************************************************)
(* Temporary audio sharing: upload, check, stream (with Range) and delete  *)
(* of audio entries keyed by a token, in the two backends of the           *)
(* repository:                                                             *)
(*   "mem"  the Node server keeping entries in the object audioStore       *)
(*          (src/functions/api/check/[token].js, lines 37-302);            *)
(*   "r2"   the Pages Functions over the R2 bucket AUDIO_BUCKET            *)
(*          (upload: src/unnamed/part_000, delete: src/unnamed/part_001,   *)
(*          check: src/functions/api/check/[token].js lines 1-35,          *)
(*          stream: src/functions/stream/[token].js).                      *)
(*                                                                         *)
(* Strings that the code takes apart (the Range header, the X-Filename     *)
(* header) are sequences: of one-character strings for the Range header,   *)
(* of character codes for file names (decodeURIComponent computes codes).  *)
(* A header that is absent, or present and empty, is the empty sequence:   *)
(* the code tests both with `||` or `if (range)`.                          *)
(***************************************************************************)
EXTENDS Integers, Sequences, FiniteSets

(***************************************************************************)
(* Bounds of the model.                                                    *)
(***************************************************************************)
\* The byte cap of an upload, in bytes. The source's cap is 25 MiB
\* (MAX_AUDIO_BYTES, maxBytes); the model scales it down.
MaxBytes == 2
\* The largest chunk one 'data' event delivers.
MaxChunk == 2
\* The number of tokens the generators can hand out in one behaviour.
NumTokens == 2
\* The clock stops at MaxClock.
MaxClock == 2
\* The number of requests that can be uploading to the Node server at once.
NumSlots == 1
\* The number of requests uploading at once in the specification of the
\* concurrent uploads.
NumUploaders == 2
\* The largest number a Range header of the model names.
FarEnd == 10

(***************************************************************************)
(* Program constants.                                                      *)
(***************************************************************************)
\* const MAX_AUDIO_BYTES = 25 * 1024 * 1024; scaled to the bound MaxBytes.
MAX_AUDIO_BYTES == MaxBytes
\* const maxBytes = 25 * 1024 * 1024; the same cap in the R2 upload handler.
maxBytes == MaxBytes
\* const AUDIO_TTL_MS = 60 * 60 * 1000; the clock of the model counts hours.
AUDIO_TTL_MS == 1

TokenNames == <<"t1", "t2", "t3", "t4">>
Tokens == {TokenNames[i] : i \in 1..NumTokens}
\* The token of a request: a token the generator can produce, or the empty
\* token of a path such as /api/check/ (split('/').pop() gives '').
EmptyToken == ""
\* A token that no generator ever produces.
UnknownToken == "zz"
Slots == 1..NumSlots
Methods == {"GET", "POST", "DELETE"}

(***************************************************************************)
(* Request bodies. The body of the request in slot u is a prefix of that   *)
(* client's file, whose bytes differ from position to position and from    *)
(* client to client.                                                       *)
(***************************************************************************)
Body(u, n) == [i \in 1..n |-> 16 * u + (i - 1)]

(***************************************************************************)
(* Character strings.                                                      *)
(***************************************************************************)
Digits == <<"0", "1", "2", "3", "4", "5", "6", "7", "8", "9">>
IsDigit(c) == \E d \in 1..10 : Digits[d] = c
DigitVal(c) == (CHOOSE d \in 1..10 : Digits[d] = c) - 1

\* Number.prototype.toString / template literal of a non-negative integer.
RECURSIVE NumToString(_)
NumToString(n) ==
  IF n < 10 THEN <<Digits[n + 1]>>
  ELSE NumToString(n \div 10) \o <<Digits[(n % 10) + 1]>>

\* parseInt(s, 10) and Number(s) of a non-empty string of decimal digits.
RECURSIVE ParseDec(_)
ParseDec(s) ==
  IF Len(s) = 0 THEN 0
  ELSE 10 * ParseDec(SubSeq(s, 1, Len(s) - 1)) + DigitVal(s[Len(s)])

(***************************************************************************)
(* The Range header pattern of both stream handlers: the text bytes= , one  *)
(* or more digits (group 1), a dash, any number of digits (group 2). The   *)
(* pattern is not anchored, so exec finds the leftmost place of the header *)
(* where it matches; both digit groups are greedy.                         *)
(***************************************************************************)
BytesEq == <<"b", "y", "t", "e", "s", "=">>

\* The length of the longest run of digits of s that starts at position i.
RECURSIVE DigitRun(_, _)
DigitRun(s, i) ==
  IF i <= Len(s) /\ IsDigit(s[i]) THEN 1 + DigitRun(s, i + 1) ELSE 0

\* Whether the pattern matches at position i of s.
MatchesAt(s, i) ==
  LET d == i + Len(BytesEq)
      n1 == DigitRun(s, d)
  IN  /\ d - 1 <= Len(s)
      /\ SubSeq(s, i, d - 1) = BytesEq
      /\ n1 >= 1
      /\ d + n1 <= Len(s)
      /\ s[d + n1] = "-"

NoMatch == [matched |-> FALSE, g1 |-> <<>>, g2 |-> <<>>]

\* exec: null (NoMatch), or the groups match[1] and match[2].
RangeExec(s) ==
  LET places == {i \in 1..Len(s) : MatchesAt(s, i)}
  IN  IF places = {} THEN NoMatch
      ELSE LET i  == CHOOSE p \in places : \A q \in places : p <= q
               d  == i + Len(BytesEq)
               n1 == DigitRun(s, d)
               n2 == DigitRun(s, d + n1 + 1)
           IN  [matched |-> TRUE,
                g1 |-> SubSeq(s, d, d + n1 - 1),
                g2 |-> SubSeq(s, d + n1 + 1, d + n1 + n2)]

(***************************************************************************)
(* decodeURIComponent, on strings given as sequences of code points: every *)
(* '%' must start an escape %XX; the escaped bytes must be well-formed     *)
(* UTF-8 (one to four bytes, no overlong form, no surrogate), else the     *)
(* call throws URIError.                                                   *)
(***************************************************************************)
Percent == 37
IsHex(c) == c \in (48..57) \cup (65..70) \cup (97..102)
HexVal(c) == IF c \in 48..57 THEN c - 48
             ELSE IF c \in 65..70 THEN c - 55 ELSE c - 87

\* Whether s holds an escape %XX at position i, and its byte.
HasEscape(s, i) ==
  i + 2 <= Len(s) /\ s[i] = Percent /\ IsHex(s[i + 1]) /\ IsHex(s[i + 2])
EscapeByte(s, i) == 16 * HexVal(s[i + 1]) + HexVal(s[i + 2])

\* The number of bytes of the UTF-8 sequence a lead byte starts (0: none).
Utf8Len(b) ==
  IF b < 128 THEN 1
  ELSE IF b >= 192 /\ b < 224 THEN 2
  ELSE IF b >= 224 /\ b < 240 THEN 3
  ELSE IF b >= 240 /\ b < 248 THEN 4
  ELSE 0
Utf8Lead(b, n) ==
  IF n = 1 THEN b ELSE IF n = 2 THEN b - 192 ELSE IF n = 3 THEN b - 224 ELSE b - 240
Utf8Min(n) ==
  IF n = 1 THEN 0 ELSE IF n = 2 THEN 128 ELSE IF n = 3 THEN 2048 ELSE 65536

\* The k continuation escapes of s from position i, folded into acc; -1 when
\* one of them is missing or is no continuation byte.
RECURSIVE Utf8Cont(_, _, _, _)
Utf8Cont(s, i, k, acc) ==
  IF k = 0 THEN acc
  ELSE IF ~HasEscape(s, i) THEN -1
  ELSE LET c == EscapeByte(s, i)
       IN  IF c < 128 \/ c >= 192 THEN -1
           ELSE Utf8Cont(s, i + 3, k - 1, 64 * acc + (c - 128))

DecodeThrows == [ok |-> FALSE, val |-> <<>>]

RECURSIVE DecodeFrom(_, _)
DecodeFrom(s, i) ==
  IF i > Len(s) THEN [ok |-> TRUE, val |-> <<>>]
  ELSE IF s[i] # Percent THEN
    LET rest == DecodeFrom(s, i + 1)
    IN  IF rest.ok THEN [ok |-> TRUE, val |-> <<s[i]>> \o rest.val]
        ELSE DecodeThrows
  ELSE IF ~HasEscape(s, i) THEN DecodeThrows
  ELSE
    LET b  == EscapeByte(s, i)
        n  == Utf8Len(b)
        cp == IF n = 0 THEN -1 ELSE Utf8Cont(s, i + 3, n - 1, Utf8Lead(b, n))
    IN  IF \/ cp < 0
           \/ cp < Utf8Min(n)
           \/ cp > 1114111
           \/ (cp >= 55296 /\ cp <= 57343)
        THEN DecodeThrows
        ELSE LET rest == DecodeFrom(s, i + 3 * n)
             IN  IF rest.ok THEN [ok |-> TRUE, val |-> <<cp>> \o rest.val]
                 ELSE DecodeThrows

decodeURIComponent(s) == DecodeFrom(s, 1)

(***************************************************************************)
(* The inputs of the requests.                                             *)
(***************************************************************************)
\* The headers of an upload: X-Filename (code points), X-Mime-Type and
\* Content-Type ("" when not sent).
\*   nothing sent; the browser client's "a%20" with the file's type;
\*   a name that is no valid escape sequence, "%", with a Content-Type only.
UploadHeaders ==
  { [xfilename |-> <<>>, xmime |-> "", ctype |-> ""],
    [xfilename |-> <<97, 37, 50, 48>>, xmime |-> "audio/ogg", ctype |-> "audio/ogg"],
    [xfilename |-> <<37>>, xmime |-> "", ctype |-> "audio/wav"] }
NoHeaders == [xfilename |-> <<>>, xmime |-> "", ctype |-> ""]

\* Range headers bytes=s-e and bytes=s- over the positions up to MaxBytes.
RangeClosed(s, e) == BytesEq \o NumToString(s) \o <<"-">> \o NumToString(e)
RangeOpen(s) == BytesEq \o NumToString(s) \o <<"-">>
\* Headers that are not of the form bytes=<start>-<end>: a suffix range, a
\* multi-range, extra characters before and after, a non-numeric end, and a
\* header of another unit.
SuffixRange == BytesEq \o <<"-", "1">>
MultiRange == RangeClosed(0, 0) \o <<",">> \o NumToString(1) \o <<"-">> \o NumToString(1)
LeadingRange == <<"x">> \o RangeClosed(0, 0)
TrailingRange == RangeClosed(0, 0) \o <<"x">>
NonNumericEnd == RangeOpen(0) \o <<"x">>
OtherUnit == <<"i", "t", "e", "m", "s", "=">> \o NumToString(0) \o <<"-">> \o NumToString(0)
OddRanges ==
  {SuffixRange, MultiRange, LeadingRange, TrailingRange, NonNumericEnd, OtherUnit}
\* A range whose numbers have leading zeros: bytes=00-01.
PaddedRange == BytesEq \o NumToString(0) \o NumToString(0) \o <<"-">>
                 \o NumToString(0) \o NumToString(1)
\* Ranges that reach beyond every payload: bytes=T-(T+5) for the sizes T,
\* and one with an end of more than one digit.
BeyondRanges ==
  {RangeClosed(t, t + 5) : t \in 1..MaxBytes} \cup {RangeClosed(1, FarEnd)}
NoRange == <<>>
\* The Range headers of the requests of Spec.
FewRanges == {NoRange, RangeOpen(0), SuffixRange}
RangeHeaders ==
  {NoRange}
    \cup {RangeClosed(s, e) : s \in 0..MaxBytes, e \in 0..MaxBytes}
    \cup {RangeOpen(s) : s \in 0..MaxBytes}
    \cup OddRanges
    \cup {PaddedRange}
    \cup BeyondRanges

(***************************************************************************)
(* The state.                                                              *)
(***************************************************************************)
VARIABLES
  backend,     \* "mem" or "r2": the backend this deployment runs
  client,      \* the headers the client of this behaviour sends on upload
  now,         \* Date.now()
  audioStore,  \* mem: the object audioStore, a function on its keys
  bucket,      \* r2: env.AUDIO_BUCKET, a function on its keys
  issued,      \* the tokens generateToken / crypto.randomUUID have produced
  returned,    \* the tokens that 200 upload responses have carried
  uploads,     \* mem: per slot, the upload request being received
  pending,     \* r2: the stream request between its head and its get
  last         \* the last event: the request and the response to it

vars == <<backend, client, now, audioStore, bucket, issued, returned, uploads, pending, last>>

\* A key that leaves the token out.
KeyWithoutToken(token) == <<"audio", EmptyToken>>

\* The R2 key of a token: `audio/${token}`.
Key(token) == <<"audio", token>>

\* An upload request of the Node server: the headers read when the handler
\* starts, the bytes the client has sent, `received`, the array `chunks` as
\* the concatenation of its chunks (Buffer.concat(chunks)), and whether
\* req.destroy() has been called.
IdleUpload ==
  [phase |-> "idle", hdr |-> NoHeaders, sent |-> 0, received |-> 0,
   chunks |-> <<>>, destroyed |-> FALSE]

NoPending ==
  [active |-> FALSE, token |-> EmptyToken, range |-> NoRange, size |-> 0,
   contentType |-> "", ranged |-> FALSE, start |-> 0, end |-> 0, length |-> 0]

\* An event with no request and no response; every event is this record
\* with some fields replaced.
\*   status 0: no response was written; delivered: the response was written
\*   to a connection that was open; threw: the handler ended by an exception;
\*   fault: the store operation or stream that failed during the request;
\*   body: the payload bytes of a stream response; contentRange: <<>> or
\*   <<start, end, total>>; createdAt: the digits of the value.
NoEvent ==
  [op |-> "none", slot |-> 0, token |-> EmptyToken, method |-> "",
   range |-> NoRange, xfilename |-> <<>>, size |-> 0,
   status |-> 0, delivered |-> FALSE, threw |-> FALSE, fault |-> "none",
   exists |-> FALSE, ok |-> FALSE, message |-> "", filename |-> <<>>, createdAt |-> <<>>,
   body |-> <<>>, contentLength |-> -1, contentRange |-> <<>>,
   contentType |-> "", acceptRanges |-> "", cacheControl |-> ""]

Init ==
  /\ backend \in {"mem", "r2"}
  /\ client \in UploadHeaders
  /\ now = 0
  /\ audioStore = <<>>
  /\ bucket = <<>>
  /\ issued = {}
  /\ returned = {}
  /\ uploads = [u \in Slots |-> IdleUpload]
  /\ pending = NoPending
  /\ last = NoEvent

\* The tokens a client can present: those it was given, the empty token and
\* a token that was never generated. Tokens are unguessable: no client
\* presents a token before the generator has produced it.
KnownTokens == returned \cup {EmptyToken, UnknownToken}

\* Date.now() advances.
Tick ==
  /\ now < MaxClock
  /\ now' = now + 1
  /\ last' = [NoEvent EXCEPT !.op = "tick"]
  /\ UNCHANGED <<backend, client, audioStore, bucket, issued, returned, uploads, pending>>

(***************************************************************************)
(* The Node server (backend "mem").                                        *)
(***************************************************************************)
\* A store assignment that replaces the whole store by the one entry.
StoreSetAlone(store, token, entry) == [t \in {token} |-> entry]
\* audioStore with audioStore[token] = entry.
StoreSet(store, token, entry) ==
  [t \in DOMAIN store \cup {token} |-> IF t = token THEN entry ELSE store[t]]
\* A delete that empties the store.
StoreDeleteAll(store, token) == <<>>
\* audioStore after delete audioStore[token].
StoreDelete(store, token) == [t \in DOMAIN store \ {token} |-> store[t]]

\* getAudioEntry: the entry as a set of at most one element ({} is null).
getAudioEntry(token) ==
  IF token \in DOMAIN audioStore /\ ~audioStore[token].deleted
  THEN {audioStore[token]}
  ELSE {}

\* sendJson(res, status, body) on the response of an upload request: the
\* response reaches the client unless req.destroy() has closed the socket.
UploadReply(u, status) ==
  [NoEvent EXCEPT !.op = "upload", !.slot = u, !.method = "POST",
                  !.xfilename = uploads[u].hdr.xfilename,
                  !.size = uploads[u].sent,
                  !.status = status,
                  !.delivered = ~uploads[u].destroyed]

\* handleUpload up to the registration of the listeners.
MemUploadStart(u, method, hdr) ==
  /\ backend = "mem"
  /\ hdr = client
  /\ uploads[u].phase = "idle"
  /\ IF method # "POST"
     THEN /\ last' = [NoEvent EXCEPT !.op = "upload", !.slot = u, !.method = method,
                                     !.xfilename = hdr.xfilename,
                                     !.status = 405, !.delivered = TRUE]
          /\ UNCHANGED uploads
     ELSE /\ uploads' = [uploads EXCEPT ![u] =
                           [IdleUpload EXCEPT !.phase = "open", !.hdr = hdr]]
          /\ last' = [NoEvent EXCEPT !.op = "start", !.slot = u, !.method = method,
                                     !.xfilename = hdr.xfilename]
  /\ UNCHANGED <<backend, client, now, audioStore, bucket, issued, returned, pending>>

\* req.on('data'): a chunk of k bytes arrives.
MemUploadData(u, k) ==
  /\ backend = "mem"
  /\ uploads[u].phase = "open"
  /\ ~uploads[u].destroyed
  /\ uploads[u].sent + k <= MaxBytes + 1
  /\ LET up       == uploads[u]
         chunk    == SubSeq(Body(u, up.sent + k), up.sent + 1, up.sent + k)
         received == up.received + Len(chunk)
     IN  /\ uploads' = [uploads EXCEPT ![u] =
               IF received > MAX_AUDIO_BYTES
               THEN [up EXCEPT !.sent = up.sent + k, !.received = received,
                               !.destroyed = TRUE]
               ELSE [up EXCEPT !.sent = up.sent + k, !.received = received,
                               !.chunks = up.chunks \o chunk]]
         /\ last' = [NoEvent EXCEPT !.op = "data", !.slot = u, !.method = "POST",
                                    !.xfilename = up.hdr.xfilename,
                                    !.size = up.sent + k]
  /\ UNCHANGED <<backend, client, now, audioStore, bucket, issued, returned, pending>>

\* The mimeType and filename handleUpload stores.
MemMimeType(hdr) ==
  LET contentType == hdr.ctype
      mimeHeader  == IF hdr.xmime # "" THEN hdr.xmime ELSE "audio/mpeg"
  IN  IF mimeHeader # "" THEN mimeHeader
      ELSE IF contentType # "" THEN contentType
      ELSE "application/octet-stream"
AudioName == <<97, 117, 100, 105, 111>>
MemFilename(hdr) == IF hdr.xfilename # <<>> THEN hdr.xfilename ELSE AudioName

\* A buffer made of the chunks of this request and of those of another
\* request that is being received: a chunks array that the requests share.
BufferConcatShared(u) ==
  LET others == {v \in DOMAIN uploads : v # u /\ uploads[v].chunks # <<>>}
  IN  IF others = {} THEN uploads[u].chunks
      ELSE uploads[u].chunks \o uploads[CHOOSE v \in others : TRUE].chunks

\* A buffer made of the first byte received only.
BufferConcatFirst(u) ==
  IF uploads[u].chunks = <<>> THEN <<>> ELSE <<uploads[u].chunks[1]>>

\* Buffer.concat(chunks): the chunks of the request, in the order they came.
BufferConcat(u) == uploads[u].chunks

\* req.on('end'). After req.destroy() the event may or may not be emitted,
\* depending on what the parser had read when the stream was destroyed.
MemUploadEndStep(u, tokens) ==
  /\ backend = "mem"
  /\ uploads[u].phase = "open"
  /\ LET up     == uploads[u]
         buffer == BufferConcat(u)
     IN  IF up.received > MAX_AUDIO_BYTES
         THEN /\ last' = UploadReply(u, 413)
              /\ UNCHANGED <<audioStore, issued, returned>>
         ELSE IF Len(buffer) = 0
         THEN /\ last' = UploadReply(u, 400)
              /\ UNCHANGED <<audioStore, issued, returned>>
         ELSE \E token \in tokens :
                /\ audioStore' = StoreSet(audioStore, token,
                     [buffer |-> buffer, mimeType |-> MemMimeType(up.hdr),
                      filename |-> MemFilename(up.hdr), createdAt |-> now,
                      deleted |-> FALSE])
                /\ issued' = issued \cup {token}
                /\ returned' = returned \cup {token}
                /\ last' = [UploadReply(u, 200) EXCEPT !.token = token]
  /\ uploads' = [uploads EXCEPT ![u] = IdleUpload]
  /\ UNCHANGED <<backend, client, now, pending>>

\* req.on('end') in the Node server, which has no bucket.
MemUploadEndFrom(u, tokens) == MemUploadEndStep(u, tokens) /\ UNCHANGED bucket

\* req.on('end') with a generator that never repeats a value.
MemUploadEnd(u) == MemUploadEndFrom(u, Tokens \ issued)

\* req.on('error'): the request stream fails.
MemUploadError(u) ==
  /\ backend = "mem"
  /\ uploads[u].phase = "open"
  /\ last' = [UploadReply(u, 500) EXCEPT !.fault = "request"]
  /\ uploads' = [uploads EXCEPT ![u] = IdleUpload]
  /\ UNCHANGED <<backend, client, now, audioStore, bucket, issued, returned, pending>>

\* After req.destroy() the request closes and neither 'end' nor 'error' is
\* emitted: no listener runs, no response is written.
MemUploadClose(u) ==
  /\ backend = "mem"
  /\ uploads[u].phase = "open"
  /\ uploads[u].destroyed
  /\ last' = UploadReply(u, 0)
  /\ uploads' = [uploads EXCEPT ![u] = IdleUpload]
  /\ UNCHANGED <<backend, client, now, audioStore, bucket, issued, returned, pending>>

\* handleCheck.
handleCheck(token) ==
  LET found == getAudioEntry(token)
  IN  IF found = {}
      THEN [NoEvent EXCEPT !.op = "check", !.token = token, !.method = "GET",
                           !.status = 404, !.delivered = TRUE, !.exists = FALSE,
                           !.message = "This audio is no longer available."]
      ELSE LET entry == CHOOSE e \in found : TRUE
           IN  [NoEvent EXCEPT !.op = "check", !.token = token, !.method = "GET",
                               !.status = 200, !.delivered = TRUE, !.exists = TRUE,
                               !.filename = entry.filename,
                               !.createdAt = NumToString(entry.createdAt)]

\* A check that stamps the entry it finds with the time of the check.
MemCheckTouch(token) ==
  /\ backend = "mem"
  /\ last' = handleCheck(token)
  /\ audioStore' =
       [k \in DOMAIN audioStore |->
          IF k = token THEN [audioStore[k] EXCEPT !.createdAt = now]
          ELSE audioStore[k]]
  /\ UNCHANGED <<backend, client, now, bucket, issued, returned, uploads, pending>>

MemCheck(token) ==
  /\ backend = "mem"
  /\ last' = handleCheck(token)
  /\ UNCHANGED <<backend, client, now, audioStore, bucket, issued, returned, uploads, pending>>

\* handleDelete: the store it leaves.
\* entry.deleted = true, on the entry stored under the token.
MarkDeleted(store, token) == [store EXCEPT ![token].deleted = TRUE]

\* A handleDelete that marks the entry and leaves it in the store.
MemDeleteStoreMarkOnly(method, token) ==
  IF method # "DELETE" /\ method # "POST" THEN audioStore
  ELSE IF getAudioEntry(token) = {} THEN audioStore
  ELSE MarkDeleted(audioStore, token)

MemDeleteStore(method, token) ==
  IF method # "DELETE" /\ method # "POST" THEN audioStore
  ELSE IF getAudioEntry(token) = {} THEN audioStore
  ELSE StoreDelete(MarkDeleted(audioStore, token), token)

\* A handleDelete that answers 404 for an entry that is gone.
MemDeleteReplyNotFound(method, token) ==
  IF method # "DELETE" /\ method # "POST"
  THEN [NoEvent EXCEPT !.op = "delete", !.token = token, !.method = method,
                       !.status = 405, !.delivered = TRUE]
  ELSE IF getAudioEntry(token) = {}
  THEN [NoEvent EXCEPT !.op = "delete", !.token = token, !.method = method,
                       !.status = 404, !.delivered = TRUE]
  ELSE [NoEvent EXCEPT !.op = "delete", !.token = token, !.method = method,
                       !.status = 200, !.delivered = TRUE, !.ok = TRUE]

\* handleDelete: its response.
MemDeleteReply(method, token) ==
  IF method # "DELETE" /\ method # "POST"
  THEN [NoEvent EXCEPT !.op = "delete", !.token = token, !.method = method,
                       !.status = 405, !.delivered = TRUE]
  ELSE IF getAudioEntry(token) = {}
  THEN [NoEvent EXCEPT !.op = "delete", !.token = token, !.method = method,
                       !.status = 200, !.delivered = TRUE, !.ok = TRUE,
                       !.message = "Already deleted or expired"]
  ELSE [NoEvent EXCEPT !.op = "delete", !.token = token, !.method = method,
                       !.status = 200, !.delivered = TRUE, !.ok = TRUE]

MemDelete(method, token) ==
  /\ backend = "mem"
  /\ audioStore' = MemDeleteStore(method, token)
  /\ last' = MemDeleteReply(method, token)
  /\ UNCHANGED <<backend, client, now, bucket, issued, returned, uploads, pending>>

\* What a stream handler makes of the Range header against the size of the
\* entry: kind "none" (no header), "invalid" (416) or "ok" with start, end.
NoRangeParsed == [kind |-> "none", start |-> 0, end |-> 0]
InvalidRange == [kind |-> "invalid", start |-> 0, end |-> 0]

\* A parser that clamps the end of the range to the last byte.
MemParseRangeClamped(range, total) ==
  IF range = NoRange THEN NoRangeParsed
  ELSE LET match == RangeExec(range)
       IN  IF ~match.matched THEN InvalidRange
           ELSE LET start == ParseDec(match.g1)
                    end   == IF match.g2 # <<>> /\ ParseDec(match.g2) < total
                             THEN ParseDec(match.g2)
                             ELSE total - 1
                IN  IF start >= total \/ start > end
                    THEN InvalidRange
                    ELSE [kind |-> "ok", start |-> start, end |-> end]

\* handleStream, from `if (range)` to the 416 responses: parseInt of a
\* string of digits is never NaN.
MemParseRange(range, total) ==
  IF range = NoRange THEN NoRangeParsed
  ELSE LET match == RangeExec(range)
       IN  IF ~match.matched THEN InvalidRange
           ELSE LET start == ParseDec(match.g1)
                    end   == IF match.g2 # <<>> THEN ParseDec(match.g2) ELSE total - 1
                IN  IF start >= total \/ end >= total \/ start > end
                    THEN InvalidRange
                    ELSE [kind |-> "ok", start |-> start, end |-> end]

\* A slice that leaves out its first byte.
BufferSliceAfterStart(buffer, start, end) == SubSeq(buffer, start + 2, end)

\* buffer.slice(start, end): the bytes at the offsets start .. end - 1.
BufferSlice(buffer, start, end) == SubSeq(buffer, start + 1, end)

\* A handleStream that matches the Range header against the pattern before
\* it looks the entry up.
handleStreamRangeFirst(token, range) ==
  LET found == getAudioEntry(token)
      req   == [NoEvent EXCEPT !.op = "stream", !.token = token, !.method = "GET",
                               !.range = range, !.delivered = TRUE]
  IN  IF range # NoRange /\ ~RangeExec(range).matched
      THEN [req EXCEPT !.status = 416, !.contentType = "text/plain",
                       !.message = "Invalid range"]
      ELSE IF found = {}
      THEN [req EXCEPT !.status = 404,
                       !.contentType = "text/plain; charset=utf-8",
                       !.message = "This audio is no longer available."]
      ELSE LET entry  == CHOOSE e \in found : TRUE
               parsed == MemParseRange(range, Len(entry.buffer))
           IN  IF parsed.kind = "invalid"
               THEN [req EXCEPT !.status = 416, !.contentType = "text/plain",
                                !.message = "Invalid range"]
               ELSE IF parsed.kind = "ok"
               THEN [req EXCEPT !.status = 206,
                                !.contentRange =
                                  <<parsed.start, parsed.end, Len(entry.buffer)>>,
                                !.acceptRanges = "bytes",
                                !.contentLength = parsed.end - parsed.start + 1,
                                !.contentType = entry.mimeType,
                                !.cacheControl = "no-store",
                                !.body = BufferSlice(entry.buffer, parsed.start,
                                                     parsed.end + 1)]
               ELSE [req EXCEPT !.status = 200,
                                !.contentLength = Len(entry.buffer),
                                !.contentType = entry.mimeType,
                                !.acceptRanges = "bytes",
                                !.cacheControl = "no-store",
                                !.body = entry.buffer]

\* handleStream.
handleStream(token, range) ==
  LET found == getAudioEntry(token)
      req   == [NoEvent EXCEPT !.op = "stream", !.token = token, !.method = "GET",
                               !.range = range, !.delivered = TRUE]
  IN  IF found = {}
      THEN [req EXCEPT !.status = 404,
                       !.contentType = "text/plain; charset=utf-8",
                       !.message = "This audio is no longer available."]
      ELSE LET entry  == CHOOSE e \in found : TRUE
               buffer == entry.buffer
               total  == Len(buffer)
               parsed == MemParseRange(range, total)
           IN  IF parsed.kind = "invalid"
               THEN [req EXCEPT !.status = 416, !.contentType = "text/plain",
                                !.message = "Invalid range"]
               ELSE IF parsed.kind = "ok"
               THEN LET chunkSize == parsed.end - parsed.start + 1
                    IN  [req EXCEPT !.status = 206,
                                    !.contentRange = <<parsed.start, parsed.end, total>>,
                                    !.acceptRanges = "bytes",
                                    !.contentLength = chunkSize,
                                    !.contentType = entry.mimeType,
                                    !.cacheControl = "no-store",
                                    !.body = BufferSlice(buffer, parsed.start, parsed.end + 1)]
               ELSE [req EXCEPT !.status = 200,
                                !.contentLength = total,
                                !.contentType = entry.mimeType,
                                !.acceptRanges = "bytes",
                                !.cacheControl = "no-store",
                                !.body = buffer]

MemStream(token, range) ==
  /\ backend = "mem"
  /\ last' = handleStream(token, range)
  /\ UNCHANGED <<backend, client, now, audioStore, bucket, issued, returned, uploads, pending>>

\* A sweeper that removes the entries marked deleted and no other.
ExpiredOnlyDeleted(entry) == entry.deleted

\* A sweeper that removes an entry as soon as its age reaches the TTL.
ExpiredAtTTL(entry) == entry.deleted \/ now - entry.createdAt >= AUDIO_TTL_MS

\* Whether cleanExpiredAudio removes an entry.
Expired(entry) == entry.deleted \/ now - entry.createdAt > AUDIO_TTL_MS

\* A sweeper that stamps the entries it keeps with the time of the sweep.
cleanExpiredAudioRestamp ==
  [t \in {k \in DOMAIN audioStore : ~Expired(audioStore[k])} |->
     [audioStore[t] EXCEPT !.createdAt = now]]

\* A sweeper that removes nothing.
cleanExpiredAudioKeepAll == audioStore

\* cleanExpiredAudio, run by setInterval between two handlers.
cleanExpiredAudio ==
  [t \in {k \in DOMAIN audioStore : ~Expired(audioStore[k])} |-> audioStore[t]]

MemSweep ==
  /\ backend = "mem"
  /\ audioStore' = cleanExpiredAudio
  /\ last' = [NoEvent EXCEPT !.op = "sweep"]
  /\ UNCHANGED <<backend, client, now, bucket, issued, returned, uploads, pending>>

MemNext(ranges) ==
  \/ \E u \in Slots, method \in {"POST", "GET"}, hdr \in UploadHeaders :
       MemUploadStart(u, method, hdr)
  \/ \E u \in Slots, k \in 1..MaxChunk : MemUploadData(u, k)
  \/ \E u \in Slots : MemUploadEnd(u)
  \/ \E u \in Slots : MemUploadError(u)
  \/ \E u \in Slots : MemUploadClose(u)
  \/ \E token \in KnownTokens : MemCheck(token)
  \/ \E method \in Methods, token \in KnownTokens : MemDelete(method, token)
  \/ \E token \in KnownTokens, range \in ranges : MemStream(token, range)
  \/ MemSweep

(***************************************************************************)
(* The Pages Functions over the R2 bucket (backend "r2"). A store          *)
(* operation (put, head, get, delete) acts at once or throws and leaves    *)
(* the bucket as it was; `fault` names the operation that throws during    *)
(* the request, "none" when none does.                                     *)
(***************************************************************************)
\* The event of a handler that ends by an exception it does not catch.
Thrown(req, fault) == [req EXCEPT !.threw = TRUE, !.fault = fault]

\* onRequestPost: the content type and the file name it stores.
R2MimeType(hdr) ==
  IF hdr.xmime # "" THEN hdr.xmime
  ELSE IF hdr.ctype # "" THEN hdr.ctype
  ELSE "audio/mpeg"
R2Filename(hdr) ==
  LET encodedFilename == IF hdr.xfilename # <<>> THEN hdr.xfilename ELSE AudioName
      decoded         == decodeURIComponent(encodedFilename)
  IN  IF decoded.ok THEN decoded.val ELSE encodedFilename

\* The object onRequestPost puts: the body and its metadata.
R2Object(arrayBuffer, hdr) ==
  [body |-> arrayBuffer, size |-> Len(arrayBuffer),
   httpMetadata |-> [contentType |-> R2MimeType(hdr)],
   customMetadata |->
     [filename |-> R2Filename(hdr), createdAt |-> NumToString(now)]]

\* The status onRequestPost answers when neither the request nor the put
\* fails.
R2UploadStatus(arrayBuffer) ==
  IF Len(arrayBuffer) = 0 THEN 400
  ELSE IF Len(arrayBuffer) > maxBytes THEN 413
  ELSE 200

\* A put that throws after it has written the object.
BucketPutThenThrow(key, object, fault) == StoreSet(bucket, key, object)

\* The bucket after env.AUDIO_BUCKET.put(key, body, options): the put stores
\* the object, or throws and stores nothing.
BucketPut(key, object, fault) ==
  IF fault = "put" THEN bucket ELSE StoreSet(bucket, key, object)

\* onRequestPost, for a request whose body has n bytes, with
\* crypto.randomUUID() returning one of the given tokens.
R2UploadFrom(u, n, hdr, fault, tokens) ==
  /\ backend = "r2"
  /\ hdr = client
  /\ fault = "put" => (n > 0 /\ n <= maxBytes)
  /\ LET arrayBuffer == Body(u, n)
         req == [NoEvent EXCEPT !.op = "upload", !.slot = u, !.method = "POST",
                                !.xfilename = hdr.xfilename, !.size = n,
                                !.delivered = TRUE]
     IN  IF fault = "body"
         THEN /\ last' = [req EXCEPT !.status = 500, !.fault = "request"]
              /\ UNCHANGED <<bucket, issued, returned>>
         ELSE IF Len(arrayBuffer) = 0
         THEN /\ last' = [req EXCEPT !.status = 400]
              /\ UNCHANGED <<bucket, issued, returned>>
         ELSE IF Len(arrayBuffer) > maxBytes
         THEN /\ last' = [req EXCEPT !.status = 413]
              /\ UNCHANGED <<bucket, issued, returned>>
         ELSE \E token \in tokens :
                /\ issued' = issued \cup {token}
                /\ bucket' = BucketPut(Key(token), R2Object(arrayBuffer, hdr), fault)
                /\ IF fault = "put"
                   THEN /\ last' = [req EXCEPT !.status = 500, !.fault = "put"]
                        /\ UNCHANGED returned
                   ELSE /\ returned' = returned \cup {token}
                        /\ last' = [req EXCEPT !.status = 200, !.token = token]
  /\ UNCHANGED <<backend, client, now, audioStore, uploads, pending>>

\* onRequestPost with a generator that never repeats a value.
R2Upload(u, n, hdr, fault) == R2UploadFrom(u, n, hdr, fault, Tokens \ issued)

\* env.AUDIO_BUCKET.head(key) and get(key): the object as a set of at most
\* one element ({} is null).
BucketHead(key) == IF key \in DOMAIN bucket THEN {bucket[key]} ELSE {}

SharedAudioName == <<83, 104, 97, 114, 101, 100, 32, 97, 117, 100, 105, 111>>

\* onRequestGet of /api/check/:token.
R2CheckReply(token, fault) ==
  LET req  == [NoEvent EXCEPT !.op = "check", !.token = token, !.method = "GET"]
      gone == [req EXCEPT !.status = 404, !.delivered = TRUE, !.exists = FALSE,
                          !.message = "This audio is no longer available."]
  IN  IF token = EmptyToken THEN gone
      ELSE IF fault = "head" THEN Thrown(req, "head")
      ELSE LET found == BucketHead(Key(token))
           IN  IF found = {} THEN gone
               ELSE LET head == CHOOSE o \in found : TRUE
                        filename == IF head.customMetadata.filename # <<>>
                                    THEN head.customMetadata.filename
                                    ELSE SharedAudioName
                    IN  [req EXCEPT !.status = 200, !.delivered = TRUE,
                                    !.exists = TRUE, !.filename = filename,
                                    !.createdAt = head.customMetadata.createdAt]

R2Check(token, fault) ==
  /\ backend = "r2"
  /\ fault = "head" => token # EmptyToken
  /\ last' = R2CheckReply(token, fault)
  /\ UNCHANGED <<backend, client, now, audioStore, bucket, issued, returned, uploads, pending>>

\* A delete handler that acts on DELETE only and answers POST without
\* deleting.
R2DeleteStoreOnDeleteOnly(method, token, fault) ==
  IF token = EmptyToken \/ method # "DELETE" \/ fault = "delete" THEN bucket
  ELSE StoreDelete(bucket, Key(token))

\* onRequest of /api/delete/:token: the bucket it leaves.
R2DeleteStore(method, token, fault) ==
  IF token = EmptyToken THEN bucket
  ELSE IF method # "DELETE" /\ method # "POST" THEN bucket
  ELSE IF fault = "delete" THEN bucket
  ELSE StoreDelete(bucket, Key(token))

\* onRequest of /api/delete/:token: its response.
R2DeleteReply(method, token, fault) ==
  LET req == [NoEvent EXCEPT !.op = "delete", !.token = token, !.method = method,
                             !.delivered = TRUE]
  IN  IF token = EmptyToken THEN [req EXCEPT !.status = 400]
      ELSE IF method # "DELETE" /\ method # "POST" THEN [req EXCEPT !.status = 405]
      ELSE [req EXCEPT !.status = 200, !.ok = TRUE, !.fault = fault]

R2Delete(method, token, fault) ==
  /\ backend = "r2"
  /\ fault = "delete" => (token # EmptyToken /\ method \in {"DELETE", "POST"})
  /\ bucket' = R2DeleteStore(method, token, fault)
  /\ last' = R2DeleteReply(method, token, fault)
  /\ UNCHANGED <<backend, client, now, audioStore, issued, returned, uploads, pending>>

\* onRequestGet of /stream/:token, from the Range header to the 416
\* responses: Number of a string of digits is finite.
R2ParseRange(rangeHeader, size) ==
  IF rangeHeader = NoRange THEN NoRangeParsed
  ELSE LET match == RangeExec(rangeHeader)
       IN  IF ~match.matched THEN InvalidRange
           ELSE LET start == ParseDec(match.g1)
                    end   == IF match.g2 # <<>> THEN ParseDec(match.g2) ELSE size - 1
                IN  IF start >= size \/ end >= size \/ start > end
                    THEN InvalidRange
                    ELSE [kind |-> "ok", start |-> start, end |-> end]

\* A get that honours the offset of the range and ignores its length.
R2RangeBodyToEnd(body, offset, length) == SubSeq(body, offset + 1, Len(body))

\* get(key, {range: {offset, length}}): the bytes of the range.
R2RangeBody(body, offset, length) == SubSeq(body, offset + 1, offset + length)

\* onRequestGet of /stream/:token up to its second await: the head and the
\* parsing of the Range header. The step ends the request with a reply, or
\* leaves it pending on the get (pending.active).
R2HeadStep(token, rangeHeader, fault) ==
  LET req  == [NoEvent EXCEPT !.op = "stream", !.token = token, !.method = "GET",
                              !.range = rangeHeader]
      gone == [req EXCEPT !.status = 404, !.delivered = TRUE,
                          !.contentType = "text/plain; charset=utf-8",
                          !.message = "This audio is no longer available."]
  IN  IF token = EmptyToken
      THEN [reply |-> gone, pending |-> NoPending]
      ELSE IF fault = "head"
      THEN [reply |-> Thrown(req, "head"), pending |-> NoPending]
      ELSE IF BucketHead(Key(token)) = {}
      THEN [reply |-> gone, pending |-> NoPending]
      ELSE LET head   == CHOOSE o \in BucketHead(Key(token)) : TRUE
               size   == head.size
               contentType == IF head.httpMetadata.contentType # ""
                              THEN head.httpMetadata.contentType
                              ELSE "audio/mpeg"
               parsed == R2ParseRange(rangeHeader, size)
           IN  IF parsed.kind = "invalid"
               THEN [reply |-> [req EXCEPT !.status = 416, !.delivered = TRUE,
                                           !.message = "Invalid range"],
                     pending |-> NoPending]
               ELSE [reply |-> [req EXCEPT !.op = "head"],
                     pending |->
                       [active |-> TRUE, token |-> token, range |-> rangeHeader,
                        size |-> size, contentType |-> contentType,
                        ranged |-> parsed.kind = "ok",
                        start |-> parsed.start, end |-> parsed.end,
                        length |-> parsed.end - parsed.start + 1]]

R2StreamHead(token, rangeHeader, fault) ==
  /\ backend = "r2"
  /\ ~pending.active
  /\ fault \in {"none", "head"}
  /\ fault = "head" => token # EmptyToken
  /\ last' = R2HeadStep(token, rangeHeader, fault).reply
  /\ pending' = R2HeadStep(token, rangeHeader, fault).pending
  /\ UNCHANGED <<backend, client, now, audioStore, bucket, issued, returned, uploads>>

\* onRequestGet of /stream/:token from its second await, for the request p
\* that its first part left pending: the get and the response.
R2Respond(p, fault) ==
  LET req   == [NoEvent EXCEPT !.op = "stream", !.token = p.token,
                               !.method = "GET", !.range = p.range]
      gone  == [req EXCEPT !.status = 404, !.delivered = TRUE,
                           !.contentType = "text/plain; charset=utf-8",
                           !.message = "This audio is no longer available."]
      found == BucketHead(Key(p.token))
  IN  IF fault = "get" THEN Thrown(req, "get")
      ELSE IF found = {} THEN gone
      ELSE LET object == CHOOSE o \in found : TRUE
           IN  IF p.ranged
               THEN [req EXCEPT !.status = 206, !.delivered = TRUE,
                                !.contentType = p.contentType,
                                !.contentLength = p.length,
                                !.contentRange = <<p.start, p.end, p.size>>,
                                !.acceptRanges = "bytes",
                                !.cacheControl = "no-store",
                                !.body = R2RangeBody(object.body, p.start, p.length)]
               ELSE [req EXCEPT !.status = 200, !.delivered = TRUE,
                                !.contentType = p.contentType,
                                !.contentLength = object.size,
                                !.acceptRanges = "bytes",
                                !.cacheControl = "no-store",
                                !.body = object.body]

\* A response without the Cache-Control header.
R2StreamReplyCacheable(fault) ==
  [R2Respond(pending, fault) EXCEPT !.cacheControl = ""]

\* A response that does not test the object the get returns: when the
\* entry is gone it sends the headers of the head with no body.
R2StreamReplyUnchecked(fault) ==
  IF fault = "none" /\ BucketHead(Key(pending.token)) = {}
  THEN [NoEvent EXCEPT !.op = "stream", !.token = pending.token,
                       !.method = "GET", !.range = pending.range,
                       !.status = IF pending.ranged THEN 206 ELSE 200,
                       !.delivered = TRUE,
                       !.contentType = pending.contentType,
                       !.contentLength = pending.size,
                       !.acceptRanges = "bytes",
                       !.cacheControl = "no-store"]
  ELSE R2Respond(pending, fault)

R2StreamReply(fault) == R2Respond(pending, fault)

R2StreamGet(fault) ==
  /\ backend = "r2"
  /\ pending.active
  /\ fault \in {"none", "get"}
  /\ last' = R2StreamReply(fault)
  /\ pending' = NoPending
  /\ UNCHANGED <<backend, client, now, audioStore, bucket, issued, returned, uploads>>

R2Next(ranges) ==
  \/ \E u \in Slots, n \in 0..(MaxBytes + 1), hdr \in UploadHeaders,
        fault \in {"none", "body", "put"} : R2Upload(u, n, hdr, fault)
  \/ \E token \in KnownTokens, fault \in {"none", "head"} : R2Check(token, fault)
  \/ \E method \in Methods, token \in KnownTokens, fault \in {"none", "delete"} :
       R2Delete(method, token, fault)
  \/ \E token \in KnownTokens, range \in ranges, fault \in {"none", "head"} :
       R2StreamHead(token, range, fault)
  \/ \E fault \in {"none", "get"} : R2StreamGet(fault)

Next == Tick \/ MemNext(FewRanges) \/ R2Next(FewRanges)

Spec == Init /\ [][Next]_vars

(***************************************************************************)
(* The specification of the Range handling: the requests of Spec without   *)
(* the clock, with every Range header of RangeHeaders, for the client that *)
(* sends the browser's headers.                                            *)
(***************************************************************************)
BrowserHeaders ==
  [xfilename |-> <<97, 37, 50, 48>>, xmime |-> "audio/ogg", ctype |-> "audio/ogg"]
InitRange == Init /\ client = BrowserHeaders
NextRange == MemNext(RangeHeaders) \/ R2Next(RangeHeaders)
SpecRange == InitRange /\ [][NextRange]_vars

(***************************************************************************)
(* The server under concurrent uploads: NumUploaders requests upload at    *)
(* once, their 'data' and 'end' events in any order, and the entries are   *)
(* streamed whole.                                                         *)
(***************************************************************************)
Uploaders == 1..NumUploaders
InitUploads ==
  /\ backend \in {"mem", "r2"}
  /\ client = BrowserHeaders
  /\ now = 0
  /\ audioStore = <<>>
  /\ bucket = <<>>
  /\ issued = {}
  /\ returned = {}
  /\ uploads = [u \in Uploaders |-> IdleUpload]
  /\ pending = NoPending
  /\ last = NoEvent
NextUploads ==
  \/ \E u \in Uploaders : MemUploadStart(u, "POST", client)
  \/ \E u \in Uploaders, k \in 1..MaxChunk : MemUploadData(u, k)
  \/ \E u \in Uploaders : MemUploadEnd(u)
  \/ \E u \in Uploaders : MemUploadError(u)
  \/ \E u \in Uploaders : MemUploadClose(u)
  \/ \E token \in KnownTokens : MemStream(token, NoRange)
  \/ \E u \in Uploaders, n \in 0..(MaxBytes + 1), fault \in {"none", "body", "put"} :
       R2Upload(u, n, client, fault)
  \/ \E token \in KnownTokens, fault \in {"none", "head"} :
       R2StreamHead(token, NoRange, fault)
  \/ \E fault \in {"none", "get"} : R2StreamGet(fault)
SpecUploads == InitUploads /\ [][NextUploads]_vars

(***************************************************************************)
(* The server with a token generator that may repeat itself: neither       *)
(* randomBytes(16) nor crypto.randomUUID() remembers what it returned, and *)
(* neither upload handler looks the token up before it stores the entry.   *)
(* The requests of Spec without the clock, the uploads drawing their token *)
(* from all of Tokens.                                                     *)
(***************************************************************************)
NextCollide ==
  \/ \E u \in Slots : MemUploadStart(u, "POST", client)
  \/ \E u \in Slots, k \in 1..MaxChunk : MemUploadData(u, k)
  \/ \E u \in Slots : MemUploadEndFrom(u, Tokens)
  \/ \E u \in Slots : MemUploadError(u)
  \/ \E u \in Slots : MemUploadClose(u)
  \/ \E token \in KnownTokens : MemCheck(token)
  \/ \E method \in Methods, token \in KnownTokens : MemDelete(method, token)
  \/ \E token \in KnownTokens : MemStream(token, NoRange)
  \/ \E u \in Slots, n \in 0..(MaxBytes + 1), fault \in {"none", "body", "put"} :
       R2UploadFrom(u, n, client, fault, Tokens)
  \/ \E token \in KnownTokens, fault \in {"none", "head"} : R2Check(token, fault)
  \/ \E method \in Methods, token \in KnownTokens, fault \in {"none", "delete"} :
       R2Delete(method, token, fault)
  \/ \E token \in KnownTokens, fault \in {"none", "head"} :
       R2StreamHead(token, NoRange, fault)
  \/ \E fault \in {"none", "get"} : R2StreamGet(fault)
SpecCollide == InitRange /\ [][NextCollide]_vars

(***************************************************************************)
(* The Node server with its timer and its clock running: setInterval       *)
(* keeps calling cleanExpiredAudio and Date.now() keeps advancing, which   *)
(* is weak fairness of MemSweep and of Tick. The clock of the model stops  *)
(* at MaxClock, so the uploads complete while the entry they create can    *)
(* still outlive the TTL before the clock stops.                           *)
(***************************************************************************)
InitLive == InitRange /\ backend = "mem"
NextLive ==
  \/ Tick
  \/ \E u \in Slots : MemUploadStart(u, "POST", client)
  \/ \E u \in Slots, k \in 1..MaxChunk : MemUploadData(u, k)
  \/ \E u \in Slots : now + AUDIO_TTL_MS < MaxClock /\ MemUploadEnd(u)
  \/ \E u \in Slots : MemUploadError(u)
  \/ \E u \in Slots : MemUploadClose(u)
  \/ \E token \in KnownTokens : MemCheck(token)
  \/ \E method \in Methods, token \in KnownTokens : MemDelete(method, token)
  \/ \E token \in KnownTokens : MemStream(token, NoRange)
  \/ MemSweep
SpecLive == InitLive /\ [][NextLive]_vars /\ WF_vars(Tick) /\ WF_vars(MemSweep)

(***************************************************************************)
(* The two backends side by side: every request goes to the Node server    *)
(* and to the R2 functions, audioStore the store of the one and bucket the *)
(* store of the other. No store operation fails, no request is aborted,    *)
(* and neither the sweeper nor the clock runs. The two uploads of one body *)
(* return the same token, which relates the tokens one to one. The events  *)
(* are the answers of the Node server; the answers of the R2 functions are *)
(* R2UploadStatus, R2CheckReply, R2StreamSerial and R2DeleteReply in the   *)
(* state the request arrives in.                                           *)
(***************************************************************************)
InitBoth == Init /\ backend = "mem"

\* The end of an upload: req.on('end') in the Node server, and onRequestPost
\* with the whole body that was sent.
BothUploadEnd(u) ==
  /\ MemUploadEndStep(u, Tokens \ issued)
  /\ LET arrayBuffer == Body(u, uploads[u].sent)
     IN  IF R2UploadStatus(arrayBuffer) # 200
         THEN bucket' = bucket
         ELSE \E token \in Tokens \ issued :
                /\ last'.status = 200 => token = last'.token
                /\ bucket' = BucketPut(Key(token),
                                       R2Object(arrayBuffer, uploads[u].hdr), "none")

\* A delete request: handleDelete, and onRequest of the delete function.
BothDelete(method, token) ==
  /\ backend = "mem"
  /\ audioStore' = MemDeleteStore(method, token)
  /\ bucket' = R2DeleteStore(method, token, "none")
  /\ last' = MemDeleteReply(method, token)
  /\ UNCHANGED <<backend, client, now, issued, returned, uploads, pending>>

NextBoth ==
  \/ \E u \in Slots : MemUploadStart(u, "POST", client)
  \/ \E u \in Slots, k \in 1..MaxChunk : MemUploadData(u, k)
  \/ \E u \in Slots : BothUploadEnd(u)
  \/ \E token \in KnownTokens : MemCheck(token)
  \/ \E token \in KnownTokens, range \in RangeHeaders : MemStream(token, range)
  \/ \E method \in Methods, token \in KnownTokens : BothDelete(method, token)
SpecBoth == InitBoth /\ [][NextBoth]_vars

(***************************************************************************)
(* What the claims speak of.                                               *)
(***************************************************************************)
\* Whether the store of the backend holds an entry for the token, and the
\* entry's payload.
Live(token) ==
  IF backend = "mem" THEN getAudioEntry(token) # {}
  ELSE token # EmptyToken /\ BucketHead(Key(token)) # {}
Payload(token) ==
  IF backend = "mem" THEN audioStore[token].buffer ELSE bucket[Key(token)].body

\* The step leaves the entry of the token as it is in the store of the
\* backend: absent, or present with the same payload and metadata.
EntryKept(token) ==
  /\ (token \in DOMAIN audioStore') = (token \in DOMAIN audioStore)
  /\ token \in DOMAIN audioStore => audioStore'[token] = audioStore[token]
  /\ (Key(token) \in DOMAIN bucket') = (Key(token) \in DOMAIN bucket)
  /\ Key(token) \in DOMAIN bucket => bucket'[Key(token)] = bucket[Key(token)]

\* An upload event that ends an upload request (not the 'data' events or
\* the registration of the listeners before it).
IsUploadResult(e) == e.op = "upload" /\ e.method = "POST"

(***************************************************************************)
(* C1. For every upload of 0 < n <= MAX bytes that answers 200 with a      *)
(* token, a check of that token issued immediately afterwards answers 200  *)
(* with exists = true and the original file name: the percent-decoded      *)
(* value of the X-Filename header of the upload. Stated for the uploads    *)
(* whose X-Filename is sent and is a valid percent-encoding, and for the   *)
(* checks that end with a response.                                        *)
(***************************************************************************)
C1_CheckAfterUpload ==
  [][ ( /\ IsUploadResult(last) /\ last.status = 200
        /\ last.size > 0 /\ last.size <= MaxBytes
        /\ last.xfilename # <<>>
        /\ decodeURIComponent(last.xfilename).ok
        /\ last'.op = "check" /\ last'.token = last.token
        /\ ~last'.threw )
      => ( /\ last'.status = 200
           /\ last'.exists
           /\ last'.filename = decodeURIComponent(last.xfilename).val ) ]_vars

(***************************************************************************)
(* C2. An upload of 0 bytes is answered 400, an upload of MAX + 1 bytes is *)
(* answered 413, an upload of exactly MAX bytes is answered 200 with a     *)
(* token; in the Node server too the request that exceeds the cap gets its *)
(* 413. Stated for the upload requests during which neither the request    *)
(* stream nor the store fails.                                             *)
(***************************************************************************)
C2_UploadSizeBoundaries ==
  (IsUploadResult(last) /\ last.fault = "none")
    => /\ last.size = 0 => (last.status = 400 /\ last.delivered)
       /\ last.size = MaxBytes + 1 => (last.status = 413 /\ last.delivered)
       /\ last.size = MaxBytes =>
            (last.status = 200 /\ last.delivered /\ last.token \in Tokens)

(***************************************************************************)
(* C3. Every step of an upload that does not answer 200 (an empty body, a  *)
(* body over the cap, a request stream error, a put that fails) leaves the *)
(* store as it was, and the response carries no token.                     *)
(***************************************************************************)
C3_FailedUploadLeavesStore ==
  [][ (last'.op \in {"start", "data", "upload"} /\ last'.status # 200)
      => ( /\ audioStore' = audioStore
           /\ bucket' = bucket
           /\ last'.token = EmptyToken ) ]_vars

\* A put has failed, answered 500, on a bucket that holds an entry.
C3_Witness ==
  /\ IsUploadResult(last) /\ last.status = 500 /\ last.fault = "put"
  /\ DOMAIN bucket # {}

(***************************************************************************)
(* C4. In every reachable state, a check of a token that no successful     *)
(* upload has returned (the empty token included) answers 404 with         *)
(* exists = false, and a stream of it answers 404, with or without a Range *)
(* header. Stated for the requests that end with a response.               *)
(***************************************************************************)
C4_NeverIssuedIs404 ==
  (last.op \in {"check", "stream"} /\ last.token \notin returned /\ ~last.threw)
    => (last.status = 404 /\ ~last.exists /\ last.body = <<>>)

\* A stream with a Range header of a token that was never generated, while
\* the store holds an entry.
C4_Witness ==
  /\ last.op = "stream" /\ last.token = UnknownToken /\ last.range # NoRange
  /\ last.status = 404
  /\ \E t \in returned : Live(t)

C6_DeleteAlwaysOk ==
  [][ /\ ( /\ last'.op = "delete" /\ last'.method \in {"DELETE", "POST"}
           /\ last'.token # EmptyToken )
        => (last'.status = 200 /\ last'.ok /\ last'.delivered)
      /\ ( /\ last.op = "delete" /\ last.status = 200 /\ last.fault = "none"
           /\ last'.op = "delete" /\ last'.token = last.token )
        => (audioStore' = audioStore /\ bucket' = bucket) ]_vars

\* Before any time has passed, a delete of a token that an upload returned
\* finds the entry already deleted.
C6_Witness ==
  /\ last.op = "delete" /\ last.token \in returned /\ now = 0
  /\ last.status = 200 /\ last.message = "Already deleted or expired"

(***************************************************************************)
(* C7. A delete request with an empty token is answered 400, and one with  *)
(* a token and a method other than DELETE or POST is answered 405, in both *)
(* backends.                                                               *)
(***************************************************************************)
C7_DeleteRejects ==
  last.op = "delete"
    => /\ last.token = EmptyToken => last.status = 400
       /\ (last.token # EmptyToken /\ last.method \notin {"DELETE", "POST"})
            => last.status = 405

\* The size of the live entry the last event is about.
TotalSize == Len(Payload(last.token))
\* A stream request of a live entry that ended with a response.
StreamOfLive == last.op = "stream" /\ ~last.threw /\ Live(last.token)

(***************************************************************************)
(* C8. For a live entry of total size T and a Range header bytes=s-e with  *)
(* 0 <= s <= e < T, or bytes=s- with 0 <= s < T (then e = T - 1), stream   *)
(* answers 206 with the e - s + 1 bytes payload[s..e], Content-Length      *)
(* e - s + 1 and Content-Range bytes s-e/T.                                *)
(***************************************************************************)
C8_RangeServed ==
  StreamOfLive =>
    \A s \in 0..(TotalSize - 1) : \A e \in s..(TotalSize - 1) :
      (last.range = RangeClosed(s, e)
         \/ (e = TotalSize - 1 /\ last.range = RangeOpen(s)))
      => /\ last.status = 206 /\ last.delivered
         /\ last.body = [i \in 1..(e - s + 1) |-> Payload(last.token)[s + i]]
         /\ last.contentLength = e - s + 1
         /\ last.contentRange = <<s, e, TotalSize>>

\* bytes=1-1 of an entry of two bytes is answered with its second byte.
C8_Witness ==
  /\ StreamOfLive /\ TotalSize = 2 /\ last.range = RangeClosed(1, 1)
  /\ last.status = 206 /\ last.body = <<Payload(last.token)[2]>>

(***************************************************************************)
(* C9. For a live entry of total size T, a Range header bytes=s-e or       *)
(* bytes=s- that violates one of s <= e, s < T, e < T is answered 416 with *)
(* no byte of the payload: no range is clamped to the size.                *)
(***************************************************************************)
C9_RangeRejected ==
  StreamOfLive =>
    \A s \in 0..FarEnd :
      /\ (last.range = RangeOpen(s) /\ s >= TotalSize)
           => (last.status = 416 /\ last.body = <<>>)
      /\ \A e \in 0..FarEnd :
           ( /\ last.range = RangeClosed(s, e)
             /\ (s > e \/ s >= TotalSize \/ e >= TotalSize) )
           => (last.status = 416 /\ last.body = <<>>)

\* bytes=T-(T+5) of an entry of T bytes is answered 416.
C9_Witness ==
  /\ StreamOfLive /\ last.range = RangeClosed(TotalSize, TotalSize + 5)
  /\ last.status = 416

\* Whether a header is exactly bytes=<start>-<end>, <start> a string of
\* digits and <end> a string of digits or empty.
IsExactRange(s) ==
  /\ MatchesAt(s, 1)
  /\ LET d  == 1 + Len(BytesEq)
         n1 == DigitRun(s, d)
         n2 == DigitRun(s, d + n1 + 1)
     IN  d + n1 + n2 = Len(s)

(***************************************************************************)
(* C10. For a live entry, every Range header that is present and is not    *)
(* exactly of the form bytes=<start>-<end> is answered 416 with no byte of *)
(* the payload.                                                            *)
(***************************************************************************)
C10_MalformedRejected ==
  (StreamOfLive /\ last.range # NoRange /\ ~IsExactRange(last.range))
    => (last.status = 416 /\ last.body = <<>>)

\* The response to a stream request that runs in the present state from its
\* first line to its last, with no store failure: handleStream, or the two
\* parts of the R2 onRequestGet one after the other.
R2StreamSerial(token, range) ==
  LET h == R2HeadStep(token, range, "none")
  IN  IF h.pending.active THEN R2Respond(h.pending, "none") ELSE h.reply
StreamSerial(token, range) ==
  IF backend = "mem" THEN handleStream(token, range)
  ELSE R2StreamSerial(token, range)

(***************************************************************************)
(* C11. For every live entry of size T >= 2 and every k with               *)
(* 0 <= k < T - 1, the body of the full read equals the body of the read   *)
(* of bytes=0-k followed by the body of the read of bytes=(k+1)-(T-1),     *)
(* the three reads made of the same store; and the body a stream request   *)
(* of a live entry was answered with is the body of such a read.           *)
(***************************************************************************)
C11_SplitReadsConcatenate ==
  /\ \A t \in returned : Live(t) =>
       \A k \in 0..(Len(Payload(t)) - 2) :
         StreamSerial(t, NoRange).body =
           StreamSerial(t, RangeClosed(0, k)).body
             \o StreamSerial(t, RangeClosed(k + 1, Len(Payload(t)) - 1)).body
  /\ (StreamOfLive /\ last.status \in {200, 206})
       => last.body = StreamSerial(last.token, last.range).body

\* The first byte of an entry of two bytes has been read with bytes=0-0,
\* and the read of bytes=1-1 completes it to the payload.
C11_Witness ==
  /\ StreamOfLive /\ TotalSize = 2 /\ last.range = RangeClosed(0, 0)
  /\ last.status = 206
  /\ last.body \o StreamSerial(last.token, RangeClosed(1, 1)).body
       = Payload(last.token)

(***************************************************************************)
(* C12. A stream request for a token that has no live entry when the       *)
(* handler looks it up is answered 404 whatever its Range header is        *)
(* (absent, valid, out of bounds or malformed), and never 416.             *)
(***************************************************************************)
C12_AbsenceBeforeRange ==
  [][ \A t \in Tokens \cup {EmptyToken, UnknownToken} :
        (last'.op = "stream" /\ last'.token = t /\ ~Live(t)')
          => /\ last'.status # 416
             /\ ~last'.threw => (last'.status = 404 /\ last'.body = <<>>) ]_vars

\* A stream with a malformed Range header of a token whose entry is gone.
C12_Witness ==
  /\ last.op = "stream" /\ last.token \in returned /\ ~Live(last.token)
  /\ last.range \in OddRanges /\ last.status = 404

(***************************************************************************)
(* C13. A stream request without a Range header for a live entry of size T *)
(* is answered 200 with the whole payload, Content-Length = T and          *)
(* Accept-Ranges: bytes; and every stream response of status 200 or 206    *)
(* carries Cache-Control: no-store and Accept-Ranges: bytes.               *)
(***************************************************************************)
C13_FullReadAndHeaders ==
  /\ (StreamOfLive /\ last.range = NoRange)
       => /\ last.status = 200 /\ last.delivered
          /\ last.body = Payload(last.token)
          /\ last.contentLength = TotalSize
          /\ last.acceptRanges = "bytes"
  /\ (last.op = "stream" /\ last.status \in {200, 206})
       => (last.cacheControl = "no-store" /\ last.acceptRanges = "bytes")

\* The full read of an entry of the largest size, in the R2 backend.
C13_Witness ==
  /\ backend = "r2" /\ StreamOfLive /\ last.range = NoRange
  /\ last.status = 200 /\ TotalSize = MaxBytes /\ Len(last.body) = MaxBytes

\* The creation time of the live entry of a token, and its age.
CreatedAt(token) ==
  IF backend = "mem" THEN audioStore[token].createdAt
  ELSE ParseDec(bucket[Key(token)].customMetadata.createdAt)
Age(token) == now - CreatedAt(token)

\* The response to a check request made in the present state, with no store
\* failure.
CheckSerial(token) ==
  IF backend = "mem" THEN handleCheck(token) ELSE R2CheckReply(token, "none")

(***************************************************************************)
(* C14. No check or stream answers 200 or 206 for an entry older than the  *)
(* TTL: a check or stream of a live entry whose age exceeds the TTL is     *)
(* answered 404. The statement as claimed.                                 *)
(***************************************************************************)
C14_ExpiredIs404 ==
  ( /\ last.op \in {"check", "stream"} /\ ~last.threw
    /\ Live(last.token) /\ Age(last.token) > AUDIO_TTL_MS )
    => (last.status = 404 /\ ~last.exists)

(***************************************************************************)
(* C14, amended. A run of the sweeper removes every entry whose age        *)
(* exceeds the TTL and keeps every other entry as it is; and a check of a  *)
(* token that an upload returned and whose entry is gone is answered 404   *)
(* with exists = false, by the very response a never-issued token gets.    *)
(***************************************************************************)
C14_SweptIs404 ==
  [][ /\ last'.op = "sweep" =>
           \A t \in DOMAIN audioStore :
             IF now - audioStore[t].createdAt > AUDIO_TTL_MS
             THEN t \notin DOMAIN audioStore'
             ELSE t \in DOMAIN audioStore' /\ audioStore'[t] = audioStore[t]
      /\ \A t \in Tokens :
           ( /\ last'.op = "check" /\ last'.token = t /\ ~last'.threw
             /\ t \in returned /\ ~Live(t)' )
           => /\ last'.status = 404 /\ ~last'.exists
              /\ last' = [CheckSerial(UnknownToken)' EXCEPT !.token = t] ]_vars

\* In the Node server, after the TTL has passed, a check of a token that an
\* upload returned is answered 404 while a younger entry is live.
C14_Witness ==
  /\ backend = "mem" /\ now > AUDIO_TTL_MS
  /\ last.op = "check" /\ last.token \in returned /\ last.status = 404
  /\ \E t \in returned : Live(t) /\ Age(t) <= AUDIO_TTL_MS

(***************************************************************************)
(* C15. For uploads whose data chunks and completions interleave in any    *)
(* order, the token a 200 response returns maps to the bytes of the body   *)
(* of its own request, in the order they arrived: every live entry holds  *)
(* the body of one request, and a stream of the token sends those bytes    *)
(* and no byte of another upload.                                          *)
(***************************************************************************)
C15_UploadsDoNotMix ==
  /\ (IsUploadResult(last) /\ last.status = 200)
       => /\ Live(last.token)
          /\ Payload(last.token) = Body(last.slot, last.size)
  /\ \A t \in returned : Live(t) =>
       \E u \in DOMAIN uploads, n \in 1..MaxBytes : Payload(t) = Body(u, n)
  /\ (StreamOfLive /\ last.status = 200)
       => /\ last.body = Payload(last.token)
          /\ \E u \in DOMAIN uploads, n \in 1..MaxBytes : last.body = Body(u, n)

\* In the Node server an upload of the largest size ends with a token while
\* another request has delivered part of its body.
C15_Witness ==
  /\ backend = "mem" /\ IsUploadResult(last) /\ last.status = 200
  /\ last.size = MaxBytes
  /\ \E v \in DOMAIN uploads :
       /\ v # last.slot /\ uploads[v].phase = "open"
       /\ uploads[v].chunks # <<>>

(***************************************************************************)
(* C16. When the store's head or get fails during a check or stream        *)
(* request, the request is answered with the 404 of an absent entry and no *)
(* exception leaves the handler.                                           *)
(***************************************************************************)
C16_ReadFaultsAre404 ==
  (last.op \in {"check", "stream"} /\ last.fault \in {"head", "get"})
    => (~last.threw /\ last.status = 404 /\ last.delivered)

(***************************************************************************)
(* C17. In the R2 stream handler, whose head and get are two store calls,  *)
(* a delete of the token between them (or before or after them) leaves    *)
(* two outcomes for a request that reaches the get and is answered: a 404  *)
(* with no byte of the payload, or a 200 or 206 whose Content-Length and   *)
(* Content-Range total are those of the entry as stored and whose body is  *)
(* the bytes of that entry the headers declare.                            *)
(***************************************************************************)
C17_RacingDeleteIsAtomic ==
  [][ (pending.active /\ last'.op = "stream" /\ ~last'.threw)
      => \/ /\ ~Live(pending.token)
            /\ last'.status = 404 /\ last'.body = <<>>
         \/ /\ Live(pending.token) /\ last'.status = 200
            /\ last'.body = Payload(pending.token)
            /\ last'.contentLength = Len(Payload(pending.token))
            /\ pending.size = Len(Payload(pending.token))
         \/ /\ Live(pending.token) /\ last'.status = 206
            /\ last'.body # <<>>
            /\ last'.contentLength = Len(last'.body)
            /\ last'.contentRange[3] = Len(Payload(pending.token))
            /\ last'.body = SubSeq(Payload(pending.token),
                                   last'.contentRange[1] + 1,
                                   last'.contentRange[2] + 1) ]_vars

\* A delete has removed the entry of a ranged stream request that is between
\* its head and its get.
C17_Witness ==
  /\ pending.active /\ pending.ranged
  /\ last.op = "delete" /\ last.token = pending.token /\ last.status = 200
  /\ ~Live(pending.token)

\* The size the store records for the live entry of a token.
StoredSize(token) ==
  IF backend = "mem" THEN Len(audioStore[token].buffer)
  ELSE bucket[Key(token)].size

(***************************************************************************)
(* C18. In every reachable state every live entry holds the whole body,    *)
(* of 0 < size <= MAX bytes, of one upload that was answered 200; the size *)
(* a stream reports (Content-Length on 200, the total of Content-Range on  *)
(* 206) is the length of that payload; and an entry appears only with the  *)
(* 200 response of its upload, holding every byte the request sent.        *)
(***************************************************************************)
C18_EntriesAreWhole ==
  /\ \A t \in Tokens : Live(t) =>
       /\ t \in returned
       /\ Len(Payload(t)) > 0 /\ Len(Payload(t)) <= MaxBytes
       /\ StoredSize(t) = Len(Payload(t))
       /\ \E u \in DOMAIN uploads : Payload(t) = Body(u, Len(Payload(t)))
  /\ (IsUploadResult(last) /\ last.status = 200)
       => Payload(last.token) = Body(last.slot, last.size)
  /\ (StreamOfLive /\ last.status = 200) => last.contentLength = TotalSize
  /\ (StreamOfLive /\ last.status = 206) => last.contentRange[3] = TotalSize

\* In the Node server, a ranged read of an entry that was received in two
\* chunks reports the size of the payload.
C18_Witness ==
  /\ backend = "mem" /\ StreamOfLive /\ last.status = 206
  /\ TotalSize = MaxBytes /\ last.contentRange[3] = MaxBytes

(***************************************************************************)
(* C19. A successful upload is the only operation that adds an entry:      *)
(* every token with a live entry was returned by a 200 upload response; a  *)
(* key appears in a store only in the step of the 200 response that        *)
(* carries its token; no step changes the entry of a key that stays; and   *)
(* check, stream, delete and the sweeper add no key.                       *)
(***************************************************************************)
C19_OnlyUploadAdds ==
  [][ /\ \A t \in Tokens : Live(t)' => t \in returned'
      /\ \A k \in DOMAIN audioStore' :
           IF k \in DOMAIN audioStore THEN audioStore'[k] = audioStore[k]
           ELSE IsUploadResult(last') /\ last'.status = 200 /\ last'.token = k
      /\ \A k \in DOMAIN bucket' :
           IF k \in DOMAIN bucket THEN bucket'[k] = bucket[k]
           ELSE IsUploadResult(last') /\ last'.status = 200 /\ Key(last'.token) = k
      /\ last'.op \in {"check", "stream", "head", "delete", "sweep", "tick"}
           => /\ DOMAIN audioStore' \subseteq DOMAIN audioStore
              /\ DOMAIN bucket' \subseteq DOMAIN bucket ]_vars

\* The sweeper has run after the TTL of one entry has passed and has kept a
\* younger entry.
C19_Witness ==
  /\ last.op = "sweep" /\ now > AUDIO_TTL_MS
  /\ \E t \in returned : ~Live(t)
  /\ \E t \in returned : Live(t) /\ Age(t) <= AUDIO_TTL_MS /\ CreatedAt(t) < now

(***************************************************************************)
(* C20. Check and stream are pure reads: a check or stream request, be it  *)
(* answered 200, 206, 404 or 416 or ended by a store failure, leaves both  *)
(* stores as they were; the createdAt of every entry is what it was, so    *)
(* the entries a sweep removes do not depend on the reads made before it.  *)
(***************************************************************************)
C20_ReadsArePure ==
  [][ last'.op \in {"check", "stream", "head"}
      => /\ audioStore' = audioStore
         /\ bucket' = bucket
         /\ \A t \in returned : Live(t) => (Live(t)' /\ CreatedAt(t)' = CreatedAt(t))
         /\ cleanExpiredAudio' = cleanExpiredAudio ]_vars

\* A check answered 200 of an entry that was created before the present
\* time.
C20_Witness ==
  /\ last.op = "check" /\ last.status = 200 /\ Live(last.token)
  /\ Age(last.token) > 0

C22_NoTombstone ==
  [][ /\ \A k \in DOMAIN audioStore' : ~audioStore'[k].deleted
      /\ \A t \in Tokens \cup KnownTokens' :
           (getAudioEntry(t)' = {}) = (t \notin DOMAIN audioStore')
      /\ last'.op = "sweep"
           => \A k \in DOMAIN audioStore \ DOMAIN audioStore' :
                /\ ~audioStore[k].deleted
                /\ now - audioStore[k].createdAt > AUDIO_TTL_MS ]_vars

\* handleDelete has removed the entry of a token, and the store still holds
\* the entry of another token.
C22_Witness ==
  /\ backend = "mem"
  /\ last.op = "delete" /\ last.status = 200
  /\ last.message # "Already deleted or expired"
  /\ last.token \in returned /\ last.token \notin DOMAIN audioStore
  /\ DOMAIN audioStore # {}

(***************************************************************************)
(* C23. One run of the sweeper removes exactly the entries whose age       *)
(* now - createdAt is strictly greater than the TTL: the store after the   *)
(* run is the store before it restricted to the entries of age <= TTL,     *)
(* each of them unchanged, and nothing else changes. The sweeper can run   *)
(* in every state of the Node server, whatever the delete requests have    *)
(* removed before it, the empty store included.                            *)
(***************************************************************************)
C23_SweepRemovesExactlyExpired ==
  [][ /\ backend = "mem" => ENABLED MemSweep
      /\ last'.op = "sweep"
           => /\ DOMAIN audioStore' =
                   {t \in DOMAIN audioStore :
                      now - audioStore[t].createdAt <= AUDIO_TTL_MS}
              /\ \A t \in DOMAIN audioStore' : audioStore'[t] = audioStore[t]
              /\ ~last'.threw
              /\ UNCHANGED <<now, bucket, issued, returned, uploads>> ]_vars

\* The sweeper has run after the TTL has passed: it has kept an entry whose
\* age is at most the TTL, and the entry of another token is gone.
C23_Witness ==
  /\ last.op = "sweep" /\ now > AUDIO_TTL_MS
  /\ \E t \in DOMAIN audioStore : now - audioStore[t].createdAt = AUDIO_TTL_MS
  /\ \E t \in returned : t \notin DOMAIN audioStore

(***************************************************************************)
(* C24. With the sweeper running and the clock advancing, every entry a    *)
(* successful upload has created in the in-memory store is eventually      *)
(* absent, removed by a delete request or by the sweeper, and the entry of *)
(* a token that an upload returned, once absent, is never live again.      *)
(***************************************************************************)
C24_EventuallyDestroyed ==
  /\ \A t \in Tokens : (t \in DOMAIN audioStore) ~> (t \notin DOMAIN audioStore)
  /\ [][ \A t \in Tokens : (t \in returned /\ ~Live(t)) => ~Live(t)' ]_vars

\* Every token has been returned by an upload, and a run of the sweeper has
\* left the store empty.
C24_Witness ==
  /\ backend = "mem" /\ last.op = "sweep"
  /\ returned = Tokens
  /\ audioStore = <<>>

(***************************************************************************)
(* C25. A delete request for token t removes at most the entry of t: for   *)
(* every other token u, the entry of u (presence, payload, metadata) is    *)
(* the same before and after the request, and a check of u and a stream of *)
(* u (without a Range header, and with a Range header the handlers do not  *)
(* parse) give the same answers before and after it. Stated for every      *)
(* delete request, whatever its method, its token and the outcome of the   *)
(* store's delete.                                                         *)
(***************************************************************************)
C25_DeleteTouchesOneEntry ==
  [][ last'.op = "delete"
      => \A t \in KnownTokens :
           last'.token = t
             => \A u \in Tokens \ {t} :
                  /\ EntryKept(u)
                  /\ CheckSerial(u)' = CheckSerial(u)
                  /\ \A r \in {NoRange, SuffixRange} :
                       StreamSerial(u, r)' = StreamSerial(u, r) ]_vars

\* A DELETE request has removed the entry of its token while the entry of
\* another token is live.
C25_Witness ==
  /\ last.op = "delete" /\ last.method = "DELETE" /\ last.status = 200
  /\ last.token \in returned /\ ~Live(last.token)
  /\ \E u \in returned \ {last.token} : Live(u)

(***************************************************************************)
(* C26. Run side by side on the same requests, with no store failure and   *)
(* no sweep, the Node server and the R2 functions answer every upload,     *)
(* check, stream (with any Range header) and delete request with the same  *)
(* status code, every check with the same exists flag and filename, and    *)
(* every stream with the same body bytes. An answer that was written to a  *)
(* destroyed connection is no status code.                                 *)
(***************************************************************************)
C26_BackendsAgree ==
  [][ /\ IsUploadResult(last')
           => \A u \in Slots :
                last'.slot = u
                  => (IF last'.delivered THEN last'.status ELSE 0)
                       = R2UploadStatus(Body(u, uploads[u].sent))
      /\ last'.op = "check"
           => \A t \in KnownTokens :
                last'.token = t
                  => /\ last'.status = R2CheckReply(t, "none").status
                     /\ last'.exists = R2CheckReply(t, "none").exists
                     /\ last'.filename = R2CheckReply(t, "none").filename
      /\ last'.op = "stream"
           => \A t \in KnownTokens, range \in RangeHeaders :
                (last'.token = t /\ last'.range = range)
                  => /\ last'.status = R2StreamSerial(t, range).status
                     /\ last'.body = R2StreamSerial(t, range).body
      /\ last'.op = "delete"
           => \A t \in KnownTokens, method \in Methods :
                (last'.token = t /\ last'.method = method)
                  => last'.status = R2DeleteReply(method, t, "none").status ]_vars

=============================================================================
